---- MODULE Spec2Model ----
(***************************************************************************)
(* Model of perform_statistical_tests (src/st_basic_multiple_stats.py).    *)
(*                                                                         *)
(* One invocation walks the column pairs (i, j), i < j, of a data frame.   *)
(* Each loop iteration is one action, chosen by the branch the body takes: *)
(* the insufficient-data skip, a failing test call, a returning test call  *)
(* followed by the append, or the read of the never-assigned local         *)
(* p_value.  The caller may invoke the function again on the same frame.   *)
(*                                                                         *)
(* scipy's two routines are not code of this repository.  They are         *)
(* modelled as one deterministic but unknown function: the first call on   *)
(* an input draws its outcome, later calls on the same input repeat it.    *)
(*                                                                         *)
(* A raw p-value int + hi/10^5 + lo/10^11 is kept as the three integers    *)
(* (int, hi, lo), 0 <= hi < 10^5, 0 <= lo < 10^6: one decimal more than    *)
(* the ten the formatting keeps, so that the rounding is visible.          *)
(***************************************************************************)
EXTENDS Integers, Sequences, FiniteSets, TLC

VARIABLES data, test_type, pc, i, j, results, advisories, p_value, lib,
          hist, run, prev

vars == <<data, test_type, pc, i, j, results, advisories, p_value, lib,
          hist, run, prev>>

----------------------------------------------------------------------------
(* Bounds of the model *)

MaxCols == 3
MaxRows == 2
MaxRuns == 2

----------------------------------------------------------------------------
(* Inputs *)

\* A missing entry (None in the frame, removed by dropna).
Missing == -1

Values == {1, 2}

Cells == Values \cup {Missing}

\* Column names, in frame order; a frame of n columns takes the first n.
\* Names are unique within a frame; nothing orders them alphabetically, and
\* a name may itself contain " vs " (the caller lets the user type any name).
NameOrders ==
    { <<"A", "B", "C", "D">>,
      <<"C", "A", "B", "D">>,
      <<"a vs b", "a", "b vs a", "b">> }

\* The two kinds the function dispatches on, and one it does not.
Dispatched == {"ttest", "mannwhitney"}

TestTypes == Dispatched \cup {"other"}

Frames ==
    UNION { UNION { { [names |-> SubSeq(o, 1, n), cells |-> c] :
                        c \in [1..n -> [1..r -> Cells]] } :
                    o \in NameOrders } :
            n \in 0..MaxCols, r \in 0..MaxRows }

----------------------------------------------------------------------------
(* Raw p-values *)

Num(n, h, l) == [kind |-> "num", int |-> n, hi |-> h, lo |-> l]

NaN == [kind |-> "nan", int |-> 0, hi |-> 0, lo |-> 0]

\* The local p_value before any assignment.
Unbound == [kind |-> "unbound", int |-> 0, hi |-> 0, lo |-> 0]

\* The p-values a routine may return: 3e-11, 0.04999999999, 0.05 and 1.
PGrid ==
    { Num(0, 0, 3), Num(0, 4999, 999999), Num(0, 5000, 0), Num(1, 0, 0) }

\* The literal 0.05, in units of 10^-5.
Threshold == 5000

\* p_value < 0.05; every comparison with nan is False.
LessThanThresholdLE(p) ==
    /\ p.kind = "num"
    /\ p.int = 0
    /\ \/ p.hi < Threshold
       \/ p.hi = Threshold /\ p.lo = 0

LessThanThreshold(p) ==
    /\ p.kind = "num"
    /\ p.int = 0
    /\ p.hi < Threshold

SignificanceOf(p) == IF LessThanThreshold(p) THEN "sig" ELSE "nonsig"

----------------------------------------------------------------------------
(* f"{p_value:.10f}" *)

DigitChars == <<"0", "1", "2", "3", "4", "5", "6", "7", "8", "9">>

DigitChar(d) == DigitChars[d + 1]

RECURSIVE DecDigits(_)
DecDigits(n) ==
    IF n < 10 THEN <<DigitChar(n)>>
    ELSE Append(DecDigits(n \div 10), DigitChar(n % 10))

Pad5(n) ==
    << DigitChar((n \div 10000) % 10), DigitChar((n \div 1000) % 10),
       DigitChar((n \div 100) % 10), DigitChar((n \div 10) % 10),
       DigitChar(n % 10) >>

\* The eleventh decimal is rounded away, half to even, with carry.
Rounded(p) ==
    LET q   == p.lo \div 10
        r   == p.lo % 10
        up  == r > 5 \/ (r = 5 /\ q % 2 = 1)
        lo5 == IF up THEN q + 1 ELSE q
        c1  == IF lo5 = 100000 THEN 1 ELSE 0
        hi5 == p.hi + c1
        c2  == IF hi5 = 100000 THEN 1 ELSE 0
    IN  [int |-> p.int + c2, hi |-> hi5 % 100000, lo |-> lo5 % 100000]

FormatP(p) ==
    IF p.kind = "nan" THEN <<"n", "a", "n">>
    ELSE LET t == Rounded(p)
         IN  DecDigits(t.int) \o <<".">> \o Pad5(t.hi) \o Pad5(t.lo)

----------------------------------------------------------------------------
(* The frame and the loop *)

columns == data.names

NCols == Len(columns)

\* data[col].dropna(): the column of index c (from 0) without its missing
\* entries; the frame itself is left as it is.
dropna(c) == SelectSeq(data.cells[c + 1], LAMBDA v : v /= Missing)

TooFewOne(s1, s2) == Len(s1) < 1 \/ Len(s2) < 1

\* len(sample1) < 2 or len(sample2) < 2
TooFew(s1, s2) == Len(s1) < 2 \/ Len(s2) < 2

FirstPosFromZero(n) == IF n >= 1 THEN <<0, 0>> ELSE <<n, n>>

\* range(len(columns)) and range(i + 1, len(columns)): the position of the
\* first iteration of the body, <<n, n>> when there is none.
FirstPos(n) == IF n >= 2 THEN <<0, 1>> ELSE <<n, n>>

NextPosFromI(a, b, n) ==
    IF b + 1 < n THEN <<a, b + 1>>
    ELSE IF a + 1 < n THEN <<a + 1, a + 1>>
    ELSE <<n, n>>

\* The position after the iteration at (a, b).
NextPos(a, b, n) ==
    IF b + 1 < n THEN <<a, b + 1>>
    ELSE IF a + 2 < n THEN <<a + 1, a + 2>>
    ELSE <<n, n>>

InBody == pc = "loop" /\ i < NCols

col1 == columns[i + 1]

col2 == columns[j + 1]

LabelSwapped(c1, c2) == c2 \o " vs " \o c1

\* f"{col1} vs {col2}"
Label(c1, c2) == c1 \o " vs " \o c2

\* The st.warning text.
WarningText(c1, c2) ==
    "Skipping " \o c1 \o " vs " \o c2 \o " - not enough data points"

ErrorTextNoReason(t, c1, c2, msg) ==
    IF t = "ttest"
    THEN "Error in t-test between " \o c1 \o " and " \o c2
    ELSE "Error in Mann-Whitney U test between " \o c1 \o " and " \o c2

\* The two st.error texts, with str(e) at the end.
ErrorText(t, c1, c2, msg) ==
    IF t = "ttest"
    THEN "Error in t-test between " \o c1 \o " and " \o c2 \o ": " \o msg
    ELSE "Error in Mann-Whitney U test between " \o c1 \o " and " \o c2
             \o ": " \o msg

Advisory(k, t) == [kind |-> k, text |-> t]

Row(c1, c2, p) ==
    [Comparison |-> Label(c1, c2), pvalue |-> FormatP(p),
     Significance |-> SignificanceOf(p)]

----------------------------------------------------------------------------
(* stats.ttest_ind and stats.mannwhitneyu *)

ErrMsgs == {"All numbers are identical"}

Raise(m) == [kind |-> "raise", msg |-> m, p |-> Unbound]

Return(v) == [kind |-> "ok", msg |-> "", p |-> v]

Constant(s) == \A a, b \in 1..Len(s) : s[a] = s[b]

\* Both samples are one repeated value, the same in both: the t statistic
\* is 0/0.
Degenerate(s1, s2) ==
    /\ Constant(s1) /\ Constant(s2)
    /\ s1[1] = s2[1]

\* What a call may do on samples of at least two values each.  Any call may
\* raise; ttest_ind returns nan on 0/0.
Outcomes(t, s1, s2) ==
    { Raise(m) : m \in ErrMsgs }
        \cup { Return(v) : v \in PGrid }
        \cup (IF t = "ttest" /\ Degenerate(s1, s2) THEN {Return(NaN)} ELSE {})

Known(t, s1, s2) == { m \in lib : m.test = t /\ m.s1 = s1 /\ m.s2 = s2 }

\* The routines are deterministic: a repeated call repeats its outcome.
CallOutcomes(t, s1, s2) ==
    IF Known(t, s1, s2) /= {}
    THEN { m.out : m \in Known(t, s1, s2) }
    ELSE Outcomes(t, s1, s2)

Learn(t, s1, s2, out) ==
    lib \cup {[test |-> t, s1 |-> s1, s2 |-> s2, out |-> out]}

----------------------------------------------------------------------------
(* perform_statistical_tests *)

\* hist records, per iteration of the body, the pair it was entered with,
\* the branch it took and what the routine gave in that iteration.  It is
\* history only: no action reads it.
Event(k, m, v) == [i |-> i, j |-> j, kind |-> k, msg |-> m, computed |-> v]

KeptResults(old) == old

\* results = []
FreshResults(old) == <<>>

BreakTo(a, b, n) == <<n, n>>

\* continue: on to the next iteration of the loops.
ContinueTo(a, b, n) == NextPos(a, b, n)

AssignedOnce(old, v) == IF old.kind = "unbound" THEN v ELSE old

\* _, p_value = stats....(sample1, sample2, ...)
Assigned(old, v) == v

Init ==
    /\ data \in Frames
    /\ test_type \in TestTypes
    /\ pc = "loop"
    /\ i = FirstPos(Len(data.names))[1]
    /\ j = FirstPos(Len(data.names))[2]
    /\ results = FreshResults(<<>>)
    /\ advisories = <<>>
    /\ p_value = Unbound
    /\ lib = {}
    /\ hist = <<>>
    /\ run = 1
    /\ prev = <<>>

\* Fewer than two values in a sample: a warning, and the next pair.
SkipPair ==
    /\ InBody
    /\ TooFew(dropna(i), dropna(j))
    /\ advisories' = Append(advisories,
                            Advisory("warning", WarningText(col1, col2)))
    /\ hist' = Append(hist, Event("insufficient", "", Unbound))
    /\ i' = ContinueTo(i, j, NCols)[1]
    /\ j' = ContinueTo(i, j, NCols)[2]
    /\ UNCHANGED <<data, test_type, pc, results, p_value, lib, run, prev>>

\* The selected routine raises: an error notice, and the next pair.
TestRaises ==
    /\ InBody
    /\ ~TooFew(dropna(i), dropna(j))
    /\ test_type \in Dispatched
    /\ \E out \in CallOutcomes(test_type, dropna(i), dropna(j)) :
          /\ out.kind = "raise"
          /\ lib' = Learn(test_type, dropna(i), dropna(j), out)
          /\ advisories' =
                 Append(advisories,
                        Advisory("error",
                                 ErrorText(test_type, col1, col2, out.msg)))
          /\ hist' = Append(hist, Event("failed", out.msg, Unbound))
    /\ i' = ContinueTo(i, j, NCols)[1]
    /\ j' = ContinueTo(i, j, NCols)[2]
    /\ UNCHANGED <<data, test_type, pc, results, p_value, run, prev>>

\* The selected routine returns: p_value is assigned, formatted, compared
\* with 0.05, and the row is appended.
AppendRow ==
    /\ InBody
    /\ ~TooFew(dropna(i), dropna(j))
    /\ test_type \in Dispatched
    /\ \E out \in CallOutcomes(test_type, dropna(i), dropna(j)) :
          /\ out.kind = "ok"
          /\ lib' = Learn(test_type, dropna(i), dropna(j), out)
          /\ p_value' = Assigned(p_value, out.p)
          /\ hist' = Append(hist, Event("row", "", out.p))
    /\ results' = Append(results, Row(col1, col2, p_value'))
    /\ i' = NextPos(i, j, NCols)[1]
    /\ j' = NextPos(i, j, NCols)[2]
    /\ UNCHANGED <<data, test_type, pc, advisories, run, prev>>

\* Neither branch of the if/elif is taken, and the formatting reads p_value
\* as the function's local stands: never assigned, the read raises
\* UnboundLocalError out of the function.
ReadWithoutCall ==
    /\ InBody
    /\ ~TooFew(dropna(i), dropna(j))
    /\ test_type \notin Dispatched
    /\ IF p_value.kind = "unbound"
       THEN /\ pc' = "raised"
            /\ UNCHANGED <<results, hist, i, j>>
       ELSE /\ results' = Append(results, Row(col1, col2, p_value))
            /\ hist' = Append(hist, Event("row", "", Unbound))
            /\ i' = NextPos(i, j, NCols)[1]
            /\ j' = NextPos(i, j, NCols)[2]
            /\ pc' = pc
    /\ UNCHANGED <<data, test_type, advisories, p_value, lib, run, prev>>

\* return pd.DataFrame(results)
Finish ==
    /\ pc = "loop"
    /\ ~(i < NCols)
    /\ pc' = "done"
    /\ UNCHANGED <<data, test_type, i, j, results, advisories, p_value, lib,
                   hist, run, prev>>

\* The caller invokes the function again with the same frame and test kind;
\* what the finished invocation gave is kept in prev for comparison.
Reinvoke ==
    /\ pc \in {"done", "raised"}
    /\ run < MaxRuns
    /\ prev' = Append(prev, [pc |-> pc, results |-> results,
                             advisories |-> advisories, data |-> data,
                             hist |-> hist])
    /\ run' = run + 1
    /\ pc' = "loop"
    /\ i' = FirstPos(NCols)[1]
    /\ j' = FirstPos(NCols)[2]
    /\ results' = FreshResults(results)
    /\ advisories' = <<>>
    /\ p_value' = Unbound
    /\ hist' = <<>>
    /\ UNCHANGED <<data, test_type, lib>>

Iterate == SkipPair \/ TestRaises \/ AppendRow \/ ReadWithoutCall

Next == SkipPair \/ TestRaises \/ AppendRow \/ ReadWithoutCall \/ Finish
            \/ Reinvoke

Spec == Init /\ [][Next]_vars

\* The function is sequential code: once invoked it runs on until it
\* returns or raises.  Whether the caller invokes it again is not assured.
FairSpec == Spec /\ WF_vars(Iterate \/ Finish)

----------------------------------------------------------------------------
(* Vocabulary of the properties *)

RowEvents == SelectSeq(hist, LAMBDA e : e.kind = "row")

SkipEvents == SelectSeq(hist, LAMBDA e : e.kind /= "row")

\* All index pairs of the frame.
Pairs == { <<a, b>> \in (0..(NCols - 1)) \X (0..(NCols - 1)) : a < b }

NPairs == (NCols * (NCols - 1)) \div 2

LexLess(a, b, c, d) == a < c \/ (a = c /\ b < d)

PairLabel(a, b) == columns[a + 1] \o " vs " \o columns[b + 1]

\* Rows and row events correspond one to one, in order, and each row has
\* the label of the pair its iteration was entered with.
RowsMatchEvents ==
    /\ Len(results) = Len(RowEvents)
    /\ \A k \in 1..Len(results) :
          results[k].Comparison = PairLabel(RowEvents[k].i, RowEvents[k].j)

InsufficientPair(a, b) == Len(dropna(a)) < 2 \/ Len(dropna(b)) < 2

\* No two distinct pairs of the frame form the same label text.
LabelsUnambiguous ==
    \A p, q \in Pairs : p /= q => PairLabel(p[1], p[2]) /= PairLabel(q[1], q[2])

Finished == pc \in {"done", "raised"}

\* C1: the rows are in lexicographic order of their index pairs (i, j),
\* i < j, whatever the values and the names, and each row's label is
\* "<name_i> vs <name_j>" with the lower-index column first.
C1_RowsInPairOrder ==
    /\ RowsMatchEvents
    /\ \A k \in 1..Len(RowEvents) : RowEvents[k].i < RowEvents[k].j
    /\ \A k, l \in 1..Len(RowEvents) :
          k < l => LexLess(RowEvents[k].i, RowEvents[k].j,
                           RowEvents[l].i, RowEvents[l].j)

\* Three columns named C, A, B, every pair with a row: the order is that of
\* the indices, not of the names.
C1_Witness ==
    /\ pc = "done"
    /\ columns = <<"C", "A", "B">>
    /\ Len(results) = 3
    /\ results[1].Comparison = "C vs A"
    /\ results[2].Comparison = "C vs B"
    /\ results[3].Comparison = "A vs B"

\* C2 as stated: no row carries the label of a pair in which a column has
\* fewer than 2 non-missing values.
C2_NoRowWithLabel ==
    \A p \in Pairs :
        InsufficientPair(p[1], p[2]) =>
            \A k \in 1..Len(results) :
                results[k].Comparison /= PairLabel(p[1], p[2])

\* C2 amended: no row is produced for a pair in which a column has fewer
\* than 2 non-missing values, and no row carries that pair's label when no
\* other pair of the frame forms the same label text.
C2_NoRowForPair ==
    /\ RowsMatchEvents
    /\ \A p \in Pairs :
          InsufficientPair(p[1], p[2]) =>
              /\ \A k \in 1..Len(RowEvents) :
                    <<RowEvents[k].i, RowEvents[k].j>> /= p
              /\ LabelsUnambiguous =>
                    \A k \in 1..Len(results) :
                        results[k].Comparison /= PairLabel(p[1], p[2])

\* A finished run with a skipped pair next to pairs that have rows.
C2_Witness ==
    /\ pc = "done"
    /\ NCols = 3
    /\ InsufficientPair(0, 1)
    /\ Len(results) = 1
    /\ Len(dropna(0)) = 1
    /\ LabelsUnambiguous

IsDigit(c) == \E d \in 1..10 : DigitChars[d] = c

\* A fixed-point decimal string with exactly 10 digits after the point,
\* whose value is in [0, 1].
WellFormedP(s) ==
    /\ Len(s) >= 12
    /\ s[Len(s) - 10] = "."
    /\ \A k \in 1..Len(s) : k /= Len(s) - 10 => IsDigit(s[k])
    /\ \/ \A k \in 1..(Len(s) - 11) : s[k] = "0"
       \/ /\ s[Len(s) - 11] = "1"
          /\ \A k \in 1..Len(s) : k \notin {Len(s) - 11, Len(s) - 10} => s[k] = "0"

\* C3 as stated: every row's p-value is a fixed-point decimal string with
\* exactly 10 digits after the point and a value in [0, 1]; a pair whose
\* routine gives no such value has no row.
C3_PValueWellFormed ==
    \A k \in 1..Len(results) : WellFormedP(results[k].pvalue)

\* The value of a raw p-value in units of 10^-5, the eleven decimals cut to
\* five: below 5000 exactly when the p-value is below 0.05.
Below005(p) == p.kind = "num" /\ p.int * 100000 + p.hi < 5000

\* C4 as stated: the flag is "significant" iff the raw p-value is < 0.05,
\* and "not significant" otherwise.
C4_FlagSignificant ==
    /\ Len(results) = Len(RowEvents)
    /\ \A k \in 1..Len(results) :
          results[k].Significance =
              IF Below005(RowEvents[k].computed) THEN "significant"
              ELSE "not significant"

\* C4 amended: the flag is "sig" iff the raw (unformatted) p-value of the
\* row's pair is strictly below 0.05, and "nonsig" otherwise; 0.05 itself
\* is "nonsig".
C4_FlagSig ==
    /\ Len(results) = Len(RowEvents)
    /\ \A k \in 1..Len(results) :
          results[k].Significance =
              IF Below005(RowEvents[k].computed) THEN "sig" ELSE "nonsig"

\* A row at the boundary, p = 0.05, next to one just below it that the
\* formatting rounds up to the same string.
C4_Witness ==
    /\ Len(results) >= 2
    /\ RowEvents[1].computed = Num(0, 5000, 0)
    /\ results[1].Significance = "nonsig"
    /\ RowEvents[2].computed = Num(0, 4999, 999999)
    /\ results[2].Significance = "sig"
    /\ results[2].pvalue = results[1].pvalue

\* The pair after (a, b) in the enumeration i ascending, then j ascending;
\* <<NCols, NCols>> after the last.
Successor(a, b) ==
    IF \E q \in Pairs : LexLess(a, b, q[1], q[2])
    THEN CHOOSE q \in Pairs :
            /\ LexLess(a, b, q[1], q[2])
            /\ \A r \in Pairs :
                  LexLess(a, b, r[1], r[2]) =>
                      r = q \/ LexLess(q[1], q[2], r[1], r[2])
    ELSE <<NCols, NCols>>

\* The iterations so far took the pairs in enumeration order from the
\* first, and the loop stands at the pair after the last one taken.
EveryPairInTurn ==
    /\ \A k \in 1..Len(hist) :
          <<hist[k].i, hist[k].j>> =
              IF k = 1 THEN Successor(-1, -1)
              ELSE Successor(hist[k - 1].i, hist[k - 1].j)
    /\ pc /= "raised" =>
          <<i, j>> = IF hist = <<>> THEN Successor(-1, -1)
                     ELSE Successor(hist[Len(hist)].i, hist[Len(hist)].j)

HasFailure == \E k \in 1..Len(hist) : hist[k].kind = "failed"

\* After a failure of the routine: nothing was raised, the rows of the
\* pairs before it are all in the table, the pairs were and are taken in
\* enumeration order, and a returned run has taken every pair.
FailureIsLocal ==
    HasFailure =>
        /\ pc /= "raised"
        /\ RowsMatchEvents
        /\ EveryPairInTurn
        /\ pc = "done" => Len(hist) = NPairs

\* C5: a failing routine skips only its own pair: the rows accumulated
\* before it are kept, the loop goes on to the next pair in enumeration
\* order, every later pair is processed, and the run completes and returns
\* the table of the computable pairs without raising to the caller.
C5_FailureSkipsOnePair ==
    /\ []FailureIsLocal
    /\ HasFailure ~> (pc = "done")

\* A returned run in which the first pair has a row, the second failed and
\* the third has a row again.
C5_Witness ==
    /\ pc = "done"
    /\ Len(hist) = 3
    /\ hist[1].kind = "row"
    /\ hist[2].kind = "failed"
    /\ hist[3].kind = "row"
    /\ Len(results) = 2

ExpectedAdvisory(e) ==
    IF e.kind = "insufficient"
    THEN [kind |-> "warning",
          text |-> "Skipping " \o columns[e.i + 1] \o " vs " \o columns[e.j + 1]
                       \o " - not enough data points"]
    ELSE [kind |-> "error",
          text |-> (IF test_type = "ttest" THEN "Error in t-test between "
                    ELSE "Error in Mann-Whitney U test between ")
                       \o columns[e.i + 1] \o " and " \o columns[e.j + 1]
                       \o ": " \o e.msg]

\* C6: the advisories are, in order, one per skipped pair: a warning naming
\* the pair when a sample has fewer than 2 values, an error notice naming
\* the pair and carrying the failure reason when the routine failed; a pair
\* with a row has none, and in a returned run every pair has a row or an
\* advisory.
C6_OneAdvisoryPerSkip ==
    /\ Len(advisories) = Len(SkipEvents)
    /\ \A k \in 1..Len(advisories) :
          /\ advisories[k] = ExpectedAdvisory(SkipEvents[k])
          /\ SkipEvents[k].kind = "insufficient" <=>
                 InsufficientPair(SkipEvents[k].i, SkipEvents[k].j)
    /\ Len(results) = Len(RowEvents)
    /\ pc = "done" =>
          /\ Len(results) + Len(advisories) = NPairs
          /\ \A p \in Pairs : \E k \in 1..Len(hist) : <<hist[k].i, hist[k].j>> = p

\* A returned run of three pairs: the first failed in the routine, the other
\* two lack data (with three columns a column short of data skips two
\* pairs).
C6_Witness ==
    /\ pc = "done"
    /\ NCols = 3
    /\ Len(advisories) = 3
    /\ advisories[1].kind = "error"
    /\ advisories[2].kind = "warning"
    /\ advisories[3].kind = "warning"
    /\ results = <<>>

\* The considered pairs of a returned run: all N(N-1)/2 of them, each once.
AllPairsOnce ==
    /\ Len(hist) = NPairs
    /\ \A k \in 1..Len(hist) : <<hist[k].i, hist[k].j>> \in Pairs
    /\ \A k, l \in 1..Len(hist) :
          k /= l => <<hist[k].i, hist[k].j>> /= <<hist[l].i, hist[l].j>>

\* C7 as stated: a returned run considered exactly N(N-1)/2 pairs, each
\* once; its row count is that number minus the skipped pairs, so at most
\* N(N-1)/2; and no pair label appears in two rows.
C7_CountAndDistinctLabels ==
    pc = "done" =>
        /\ AllPairsOnce
        /\ Len(results) = NPairs - Len(SkipEvents)
        /\ Len(results) <= NPairs
        /\ \A k, l \in 1..Len(results) :
              k /= l => results[k].Comparison /= results[l].Comparison

\* C7 amended: as stated, but it is the pairs of the rows that are
\* distinct; the labels are distinct when no two pairs of the frame form
\* the same label text.
C7_CountAndDistinctPairs ==
    pc = "done" =>
        /\ AllPairsOnce
        /\ RowsMatchEvents
        /\ Len(results) = NPairs - Len(SkipEvents)
        /\ Len(results) <= NPairs
        /\ \A k, l \in 1..Len(RowEvents) :
              k /= l => <<RowEvents[k].i, RowEvents[k].j>>
                            /= <<RowEvents[l].i, RowEvents[l].j>>
        /\ LabelsUnambiguous =>
              \A k, l \in 1..Len(results) :
                  k /= l => results[k].Comparison /= results[l].Comparison

\* A returned run over three columns with one pair skipped and two rows.
C7_Witness ==
    /\ pc = "done"
    /\ NCols = 3
    /\ Len(hist) = 3
    /\ Len(SkipEvents) = 1
    /\ Len(results) = 2

\* C8: a second invocation with the same frame and test kind ends as the
\* first did, with the same rows in the same order and the same advisories,
\* and the frame is as it was passed the first time.
C8_SameResultAgain ==
    (run >= 2 /\ Finished) =>
        /\ pc = prev[run - 1].pc
        /\ results = prev[run - 1].results
        /\ advisories = prev[run - 1].advisories
        /\ data = prev[run - 1].data

\* Two returned invocations, each with a row, a failure notice and a row.
C8_Witness ==
    /\ run = 2
    /\ pc = "done"
    /\ Len(results) = 2
    /\ Len(advisories) = 1
    /\ prev[1].pc = "done"
    /\ Len(prev[1].results) = 2

\* C9: with no column or one column there is no pair: the table is empty,
\* no advisory of either kind is emitted and nothing is raised, whatever the
\* cells and the test kind.
C9_NoPairNoOutput ==
    NCols <= 1 =>
        /\ results = <<>>
        /\ advisories = <<>>
        /\ hist = <<>>
        /\ pc /= "raised"

\* A returned run over one column that holds two values.
C9_Witness ==
    /\ pc = "done"
    /\ NCols = 1
    /\ Len(dropna(0)) = 2
    /\ results = <<>>

\* C10: every row's p-value string and flag come from the value the routine
\* returned for the row's own pair in the row's own iteration; with a test
\* kind neither branch handles, p_value is never assigned and no row is
\* ever produced.
C10_RowFromOwnResult ==
    /\ Len(results) = Len(RowEvents)
    /\ \A k \in 1..Len(results) :
          /\ RowEvents[k].computed.kind /= "unbound"
          /\ results[k].pvalue = FormatP(RowEvents[k].computed)
          /\ results[k].Significance = SignificanceOf(RowEvents[k].computed)
    /\ test_type \notin Dispatched => results = <<>> /\ p_value = Unbound

\* Two rows of one run with different p-values, the second after a pair
\* whose routine failed.
C10_Witness ==
    /\ Len(hist) = 3
    /\ hist[1].kind = "row"
    /\ hist[2].kind = "failed"
    /\ hist[3].kind = "row"
    /\ Len(results) = 2
    /\ results[1].pvalue /= results[2].pvalue
    /\ results[1].Significance /= results[2].Significance
====
